---- MODULE Spec2Model ----
(***************************************************************************)
(* Model of the pulumi plugin commands of garden                           *)
(* (plugins/pulumi/commands.ts): the command table, the handler built by   *)
(* makePulumiCommand, the PulumiPluginCommandTask class, and the task      *)
(* graph engine (garden.processTasks) that consumes the tasks.             *)
(*                                                                         *)
(* One behaviour is one handler invocation.  The project configuration    *)
(* (dependency graph, provider configuration), the command and its         *)
(* arguments are chosen in Init.                                           *)
(***************************************************************************)
EXTENDS Naturals, FiniteSets, Sequences, TLC

\* ------------------------------------------------------------------------
\* Bounds of the model
\* ------------------------------------------------------------------------

\* largest provider.config.pluginTaskConcurrencyLimit explored
MaxLimit == 2

\* largest number of service names given as command arguments
MaxTargets == 2

\* largest number of resolveDependencies calls made on one task
MaxCalls == 2

\* ------------------------------------------------------------------------
\* The project: services, modules, dependency graphs
\* ------------------------------------------------------------------------

Services == {"A", "B", "C", "Z"}

\* type of the module of each service: Z is managed by another plugin
ModuleType(s) == IF s = "Z" THEN "container" ELSE "pulumi"

\* module.spec.allowDestroy of the module of each service
AllowDestroy(s) == s # "B"

\* service.module: module names are the same as service names
ModuleOf(s) == [name |-> s, type |-> ModuleType(s), allowDestroy |-> AllowDestroy(s)]

DepMap(a, b, z) == ("A" :> a) @@ ("B" :> b) @@ ("C" :> {}) @@ ("Z" :> z)

\* the direct deploy dependencies of each service, in the projects explored
\* (a config graph is acyclic: its construction rejects circular dependencies)
Graphs ==
  { DepMap({"B"}, {"C"}, {}),        \* chain A -> B -> C
    DepMap({"C"}, {"C"}, {}),        \* A and B share the dependency C
    DepMap({"Z"}, {}, {"C"}),        \* A -> Z -> C, through another module type
    DepMap({"B", "Z"}, {}, {"C"}),   \* A -> B and A -> Z -> C
    DepMap({"B", "C"}, {"C"}, {"B"}),\* A -> B -> C, A -> C, Z -> B
    DepMap({}, {}, {}) }             \* no dependencies

\* ------------------------------------------------------------------------
\* Dependency graph API (ConfigGraph)
\* ------------------------------------------------------------------------

\* graph.getModules()
getModules(g) == { ModuleOf(s) : s \in DOMAIN g }

\* graph.getServices({ names }): every service when names is undefined
Undefined == {"undefined"}

getServices(g, names) ==
  IF names = Undefined THEN DOMAIN g ELSE { s \in DOMAIN g : s \in names }

RECURSIVE Reach(_, _, _)
\* the services reachable from the set `from` along g, `seen` already visited
Reach(g, from, seen) ==
  LET next == (UNION { g[s] : s \in from }) \ seen
  IN IF next = {} THEN seen ELSE Reach(g, next, seen \cup next)

\* graph.getDependencies({ nodeType: "deploy", name, recursive, filter }).deploy
getDependencies(g, name, recursive, filterNames) ==
  LET all == IF recursive THEN Reach(g, {name}, {}) ELSE g[name]
  IN { d \in all : d \in filterNames }

\* ------------------------------------------------------------------------
\* pulumiCommandSpecs
\* ------------------------------------------------------------------------

CommandNames == {"preview", "cancel", "refresh", "reimport", "destroy"}

commandDescription(name) ==
  CASE name = "preview" -> "pulumi preview"
    [] name = "cancel" -> "pulumi cancel"
    [] name = "refresh" -> "pulumi refresh"
    [] name = "reimport" -> "pulumi export | pulumi import"
    [] name = "destroy" -> "pulumi destroy"

\* only the preview command has a beforeFn
hasBeforeFn(name) == name = "preview"

\* a destroy runFn that would not look at allowDestroy
runFnDeletesAlways(name, params) == name = "destroy"

\* the destroy runFn calls deletePulumiService only when allowDestroy is set
runFnDeletes(name, params) == name = "destroy" /\ params.module.allowDestroy

\* whether the runFn of a command performs any fallible external call
runFnActs(name, params) == name # "destroy" \/ params.module.allowDestroy

\* ------------------------------------------------------------------------
\* PulumiPluginCommandTask
\* ------------------------------------------------------------------------

NoTask == [service |-> "-"]

\* a constructor that would not take the ceiling from the provider as it is
NewTaskOtherLimit(graph, service, cmdName, cmdDescription, runFn, pulumiParams) ==
  [ graph |-> graph,
    service |-> service,
    commandName |-> cmdName,
    commandDescription |-> cmdDescription,
    runFn |-> runFn,
    pulumiParams |-> pulumiParams,
    force |-> FALSE,
    concurrencyLimit |-> pulumiParams.ctx.provider.pluginTaskConcurrencyLimit + 1 ]

\* the constructor
NewTask(graph, service, cmdName, cmdDescription, runFn, pulumiParams) ==
  [ graph |-> graph,
    service |-> service,
    commandName |-> cmdName,
    commandDescription |-> cmdDescription,
    runFn |-> runFn,
    pulumiParams |-> pulumiParams,
    force |-> FALSE,
    concurrencyLimit |-> pulumiParams.ctx.provider.pluginTaskConcurrencyLimit ]

\* a getName that would name the task by the service of its parameters
getNameOfParams(task) == task.pulumiParams.service

getName(task) == task.service

\* a dependency query that would walk the graph recursively
oneHopRecursive == TRUE

\* the `recursive` argument resolveDependencies passes to getDependencies
oneHop == FALSE

\* a resolveDependencies that would hand its prerequisites a graph of their
\* own, with the dependencies already walked taken out
resolveDependenciesOtherGraph(task) ==
  LET pulumiServiceNames ==
        { m.name : m \in { m \in getModules(task.graph) : m.type = "pulumi" } }
      deps == getDependencies(task.graph, getName(task), oneHop, pulumiServiceNames)
      pruned == [s \in DOMAIN task.graph |->
                   IF s = getName(task) THEN {} ELSE task.graph[s]]
  IN { NewTask(pruned, depService, task.commandName, task.commandDescription,
               task.runFn,
               [task.pulumiParams EXCEPT !.module = ModuleOf(depService)])
       : depService \in deps }

\* a resolveDependencies that would return no prerequisite at all
resolveDependenciesNone(task) == {}

resolveDependencies(task) ==
  LET pulumiServiceNames ==
        { m.name : m \in { m \in getModules(task.graph) : m.type = "pulumi" } }
      deps == getDependencies(task.graph, getName(task), oneHop, pulumiServiceNames)
  IN { NewTask(task.graph, depService, task.commandName, task.commandDescription,
               task.runFn,
               [task.pulumiParams EXCEPT !.module = ModuleOf(depService)])
       : depService \in deps }

\* a resolveDependencies that would write the module of a dependency into
\* the parameters of its own task instead of into a copy of them
resolveDependenciesEffectInPlace(task) ==
  LET found == resolveDependencies(task)
  IN IF found = {} THEN task
     ELSE [task EXCEPT !.pulumiParams.module =
             ModuleOf((CHOOSE t \in found : TRUE).service)]

\* the task after a resolveDependencies call: the method assigns to no field
\* of the task, of its parameters or of the graph
resolveDependenciesEffect(task) == task

\* ------------------------------------------------------------------------
\* State
\* ------------------------------------------------------------------------

VARIABLES
  project,       \* the dependency structure of the project (input)
  limit,         \* provider.config.pluginTaskConcurrencyLimit (input)
  policy,        \* engine policy for dependants of a failed task (input)
  commandName,   \* the command whose handler is invoked (input)
  args,          \* the service names given to the handler (input)
  pc,            \* position of the handler
  error,         \* what made the handler throw, "none" if nothing
  graph,         \* the handler's graph snapshot
  graphCalls,    \* number of calls of garden.getConfigGraph
  beforeCalls,   \* number of calls of beforeFn
  mapper,        \* per service: state of its Bluebird.map callback
  tasks,         \* the root tasks constructed by the map callbacks
  submitted,     \* the tasks handed to garden.processTasks
  node,          \* engine: the task kept for each key
  status,        \* engine: state of the task of each key
  deps,          \* engine: keys of the resolved dependencies of each key
  step,          \* position inside process() of each running task
  failedAt,      \* the step of process() that threw, per key
  log,           \* status lines emitted, per service
  processCalls,  \* number of process() executions, per service
  selectCalls,   \* number of selectStack calls, per module
  runCalls,      \* number of runFn calls, per service
  deleteCalls,   \* number of deletePulumiService calls, per module
  results,       \* the result of garden.processTasks
  returned,      \* what the handler returned
  idA, idB,      \* two tasks whose identities are compared
  merged,        \* whether the engine treats idA and idB as one task
  calls,         \* number of resolveDependencies calls made on idA
  firstResult,   \* what the first of these calls returned
  lastResult     \* what the last of these calls returned

inputVars == <<project, limit, policy, commandName, args>>
handlerVars == <<pc, error, graph, graphCalls, beforeCalls, mapper, tasks,
                 submitted, returned>>
engineVars == <<node, status, deps, results>>
processVars == <<step, failedAt, log, processCalls, selectCalls, runCalls, deleteCalls>>
idVars == <<idA, idB, merged, calls, firstResult, lastResult>>

vars == <<inputVars, handlerVars, engineVars, processVars, idVars>>

NoGraph == [s \in {} |-> {}]

InitRun ==
  /\ pc = "getConfigGraph"
  /\ error = "none"
  /\ graph = NoGraph
  /\ graphCalls = 0
  /\ beforeCalls = 0
  /\ mapper = [s \in Services |-> "idle"]
  /\ tasks = {}
  /\ submitted = {}
  /\ node = [k \in Services |-> NoTask]
  /\ status = [k \in Services |-> "None"]
  /\ deps = [k \in Services |-> {}]
  /\ step = [k \in Services |-> "-"]
  /\ failedAt = [k \in Services |-> "none"]
  /\ log = [s \in Services |-> <<>>]
  /\ processCalls = [s \in Services |-> 0]
  /\ selectCalls = [s \in Services |-> 0]
  /\ runCalls = [s \in Services |-> 0]
  /\ deleteCalls = [s \in Services |-> 0]
  /\ results = {}
  /\ returned = [done |-> FALSE, result |-> {}]

Init ==
  /\ project \in Graphs
  /\ limit \in 1..MaxLimit
  /\ policy \in {"skip", "attempt"}
  /\ commandName \in CommandNames
  /\ args \in { a \in SUBSET Services : Cardinality(a) <= MaxTargets }
  /\ InitRun
  /\ idA = NoTask /\ idB = NoTask /\ merged = FALSE
  /\ calls = 0 /\ firstResult = {} /\ lastResult = {}


\* ------------------------------------------------------------------------
\* makePulumiCommand: the handler
\* ------------------------------------------------------------------------

\* a handler that would pass the argument list on as it is
serviceNamesAsGiven(a) == a

\* const serviceNames = args.length === 0 ? undefined : args
serviceNames(a) == IF a = {} THEN Undefined ELSE a

\* a handler that would not filter the services by module type
targetServicesUnfiltered(g, a) == getServices(g, serviceNames(a))

\* graph.getServices({ names: serviceNames }).filter((s) => s.module.type === "pulumi")
targetServices(g, a) ==
  { s \in getServices(g, serviceNames(a)) : ModuleOf(s).type = "pulumi" }

\* garden.getPluginContext(provider, templateContext, ctx.events) for a module
ctxForModule(lim, s) == [provider |-> [pluginTaskConcurrencyLimit |-> lim], module |-> s]

\* the task the map callback constructs for a service
rootTask(g, lim, name, service) ==
  NewTask(g, service, name, commandDescription(name), name,
          [ ctx |-> ctxForModule(lim, service),
            module |-> ModuleOf(service),
            service |-> service ])

\* const graph = await garden.getConfigGraph({ log, emit: false })
GetConfigGraphOk ==
  /\ pc = "getConfigGraph"
  /\ graph' = project
  /\ graphCalls' = graphCalls + 1
  /\ pc' = IF hasBeforeFn(commandName) THEN "beforeFn" ELSE "resolveProviders"
  /\ UNCHANGED <<error, beforeCalls, mapper, tasks, submitted, returned>>
  /\ UNCHANGED <<inputVars, engineVars, processVars, idVars>>

GetConfigGraphFail ==
  /\ pc = "getConfigGraph"
  /\ graphCalls' = graphCalls + 1
  /\ error' = "getConfigGraph"
  /\ pc' = "threw"
  /\ UNCHANGED <<graph, beforeCalls, mapper, tasks, submitted, returned>>
  /\ UNCHANGED <<inputVars, engineVars, processVars, idVars>>

\* await beforeFn({ ctx, log })
BeforeFnOk ==
  /\ pc = "beforeFn"
  /\ beforeCalls' = beforeCalls + 1
  /\ pc' = "resolveProviders"
  /\ UNCHANGED <<error, graph, graphCalls, mapper, tasks, submitted, returned>>
  /\ UNCHANGED <<inputVars, engineVars, processVars, idVars>>

\* a handler that would not await beforeFn: its failure is lost
BeforeFnFailUnawaited ==
  /\ pc = "beforeFn"
  /\ beforeCalls' = beforeCalls + 1
  /\ error' = "beforeFn"
  /\ pc' = "resolveProviders"
  /\ UNCHANGED <<graph, graphCalls, mapper, tasks, submitted, returned>>
  /\ UNCHANGED <<inputVars, engineVars, processVars, idVars>>

BeforeFnFail ==
  /\ pc = "beforeFn"
  /\ beforeCalls' = beforeCalls + 1
  /\ error' = "beforeFn"
  /\ pc' = "threw"
  /\ UNCHANGED <<graph, graphCalls, mapper, tasks, submitted, returned>>
  /\ UNCHANGED <<inputVars, engineVars, processVars, idVars>>

\* const allProviders = await garden.resolveProviders(log), then the
\* synchronous part up to the start of every Bluebird.map callback
ResolveProvidersOk ==
  /\ pc = "resolveProviders"
  /\ mapper' = [s \in Services |->
                  IF s \in targetServices(graph, args) THEN "pending" ELSE "idle"]
  /\ pc' = "map"
  /\ UNCHANGED <<error, graph, graphCalls, beforeCalls, tasks, submitted, returned>>
  /\ UNCHANGED <<inputVars, engineVars, processVars, idVars>>

ResolveProvidersFail ==
  /\ pc = "resolveProviders"
  /\ error' = IF error = "none" THEN "resolveProviders" ELSE error
  /\ pc' = "threw"
  /\ UNCHANGED <<graph, graphCalls, beforeCalls, mapper, tasks, submitted, returned>>
  /\ UNCHANGED <<inputVars, engineVars, processVars, idVars>>

\* a map callback runs to its end: getPluginContext resolves and the task
\* is constructed (a callback still pending when the map has been rejected
\* runs to its end all the same, its task is dropped)
MapperResolve(s) ==
  /\ mapper[s] = "pending"
  /\ pc \in {"map", "threw"}
  /\ mapper' = [mapper EXCEPT ![s] = "built"]
  /\ tasks' = tasks \cup {rootTask(graph, limit, commandName, s)}
  /\ UNCHANGED <<pc, error, graph, graphCalls, beforeCalls, submitted, returned>>
  /\ UNCHANGED <<inputVars, engineVars, processVars, idVars>>

\* a map callback that would catch the failure of getPluginContext
MapperRejectCaught(s) ==
  /\ mapper[s] = "pending"
  /\ pc \in {"map", "threw"}
  /\ mapper' = [mapper EXCEPT ![s] = "rejected"]
  /\ error' = IF error = "none" THEN "getPluginContext" ELSE error
  /\ UNCHANGED <<pc, graph, graphCalls, beforeCalls, tasks, submitted, returned>>
  /\ UNCHANGED <<inputVars, engineVars, processVars, idVars>>

\* getPluginContext rejects in a map callback: Bluebird.map rejects, and the
\* handler's await throws
MapperReject(s) ==
  /\ mapper[s] = "pending"
  /\ pc \in {"map", "threw"}
  /\ mapper' = [mapper EXCEPT ![s] = "rejected"]
  /\ error' = IF error = "none" THEN "getPluginContext" ELSE error
  /\ pc' = "threw"
  /\ UNCHANGED <<graph, graphCalls, beforeCalls, tasks, submitted, returned>>
  /\ UNCHANGED <<inputVars, engineVars, processVars, idVars>>


\* ------------------------------------------------------------------------
\* The task graph engine (garden.processTasks)
\* ------------------------------------------------------------------------

Terminal == {"Succeeded", "Failed"}
Finished == {"Succeeded", "Failed", "Aborted"}

\* the key under which the engine files a task
Key(task) == getName(task)

Keys == { k \in Services : status[k] # "None" }

RunningCount == Cardinality({ k \in Services : status[k] = "Running" })

RECURSIVE AddTasks(_, _, _)
\* file the tasks of `new` one by one: a task whose key is already taken is
\* merged into the task filed first
AddTasks(nd, st, new) ==
  IF new = {} THEN [node |-> nd, status |-> st]
  ELSE LET t == CHOOSE x \in new : TRUE
           k == Key(t)
       IN IF st[k] # "None"
          THEN AddTasks(nd, st, new \ {t})
          ELSE AddTasks([nd EXCEPT ![k] = t], [st EXCEPT ![k] = "Created"], new \ {t})

\* await garden.processTasks(tasks): the root tasks enter the engine
ProcessTasks ==
  /\ pc = "map"
  /\ \A s \in Services : mapper[s] # "pending"
  /\ submitted' = tasks
  /\ LET added == AddTasks(node, status, tasks)
     IN node' = added.node /\ status' = added.status
  /\ pc' = "engine"
  /\ UNCHANGED <<error, graph, graphCalls, beforeCalls, mapper, tasks, returned>>
  /\ UNCHANGED <<inputVars, deps, results, processVars, idVars>>

\* the engine resolves the dependencies of a task it holds and files them
Resolve(k) ==
  /\ pc = "engine"
  /\ status[k] = "Created"
  /\ LET found == resolveDependencies(node[k])
         added == AddTasks([node EXCEPT ![k] = resolveDependenciesEffect(node[k])],
                           [status EXCEPT ![k] = "Ready"], found)
     IN /\ deps' = [deps EXCEPT ![k] = { Key(t) : t \in found }]
        /\ node' = added.node
        /\ status' = added.status
  /\ UNCHANGED <<handlerVars, inputVars, results, processVars, idVars>>

\* the engine may start a task: dependencies resolved and terminal, and the
\* concurrency ceiling of the task not reached
CanStart(k) ==
  /\ pc = "engine"
  /\ status[k] = "Ready"
  /\ \A d \in deps[k] : status[d] \in Terminal
  /\ policy = "skip" => \A d \in deps[k] : status[d] = "Succeeded"
  /\ RunningCount < node[k].concurrencyLimit

\* under the skip policy a task with a failed or aborted dependency is
\* aborted without being started
Abort(k) ==
  /\ pc = "engine"
  /\ policy = "skip"
  /\ status[k] = "Ready"
  /\ \E d \in deps[k] : status[d] \in {"Failed", "Aborted"}
  /\ status' = [status EXCEPT ![k] = "Aborted"]
  /\ UNCHANGED <<handlerVars, inputVars, node, deps, results, processVars, idVars>>

Outcome(st) ==
  CASE st = "Succeeded" -> "success"
    [] st = "Failed" -> "failure"
    [] OTHER -> "aborted"

\* the engine has nothing left to run: processTasks resolves with the
\* outcome of every task
ProcessTasksDone ==
  /\ pc = "engine"
  /\ \A k \in Services : status[k] \in Finished \cup {"None"}
  /\ results' = { <<k, Outcome(status[k])>> : k \in Keys }
  /\ pc' = "return"
  /\ UNCHANGED <<error, graph, graphCalls, beforeCalls, mapper, tasks, submitted, returned>>
  /\ UNCHANGED <<inputVars, node, status, deps, processVars, idVars>>

\* ------------------------------------------------------------------------
\* PulumiPluginCommandTask.process
\* ------------------------------------------------------------------------

Inc(f, x) == [f EXCEPT ![x] = @ + 1]

\* process() is entered: the "active" status line is emitted and
\* selectStack is called
Start(k) ==
  /\ CanStart(k)
  /\ status' = [status EXCEPT ![k] = "Running"]
  /\ step' = [step EXCEPT ![k] = "selectStack"]
  /\ log' = [log EXCEPT ![getName(node[k])] = Append(@, "active")]
  /\ processCalls' = Inc(processCalls, node[k].service)
  /\ selectCalls' = Inc(selectCalls, node[k].pulumiParams.module.name)
  /\ UNCHANGED <<handlerVars, inputVars, node, deps, results, failedAt, runCalls,
                 deleteCalls, idVars>>

\* selectStack resolves and runFn is called with the task's pulumiParams
SelectStackOk(k) ==
  /\ status[k] = "Running" /\ step[k] = "selectStack"
  /\ step' = [step EXCEPT ![k] = "runFn"]
  /\ runCalls' = Inc(runCalls, node[k].service)
  /\ deleteCalls' = IF runFnDeletes(node[k].runFn, node[k].pulumiParams)
                    THEN Inc(deleteCalls, node[k].pulumiParams.module.name)
                    ELSE deleteCalls
  /\ UNCHANGED <<handlerVars, inputVars, engineVars, failedAt, log, processCalls,
                 selectCalls, idVars>>

\* a catch block that would report the failure and return normally
processCatchSwallowed(k, where) ==
  /\ failedAt' = [failedAt EXCEPT ![k] = where]
  /\ log' = [log EXCEPT ![getName(node[k])] = Append(@, "error")]
  /\ status' = [status EXCEPT ![k] = "Succeeded"]
  /\ step' = [step EXCEPT ![k] = "-"]

\* a catch block that would report the failure and not rethrow: the success
\* line follows
processCatchFallThrough(k, where) ==
  /\ failedAt' = [failedAt EXCEPT ![k] = where]
  /\ log' = [log EXCEPT ![getName(node[k])] = Append(Append(@, "error"), "success")]
  /\ status' = [status EXCEPT ![k] = "Succeeded"]
  /\ step' = [step EXCEPT ![k] = "-"]

\* catch (err) { log.setError(...); throw err }: the engine marks the task failed
processCatch(k, where) ==
  /\ failedAt' = [failedAt EXCEPT ![k] = where]
  /\ log' = [log EXCEPT ![getName(node[k])] = Append(@, "error")]
  /\ status' = [status EXCEPT ![k] = "Failed"]
  /\ step' = [step EXCEPT ![k] = "-"]

\* a process() whose selectStack call would sit outside the try block, its
\* failure ignored: runFn is called all the same
SelectStackFailIgnored(k) ==
  /\ status[k] = "Running" /\ step[k] = "selectStack"
  /\ failedAt' = [failedAt EXCEPT ![k] = "selectStack"]
  /\ step' = [step EXCEPT ![k] = "runFn"]
  /\ runCalls' = [runCalls EXCEPT ![node[k].service] = @ + 1]
  /\ UNCHANGED <<handlerVars, inputVars, engineVars, log, processCalls,
                 selectCalls, deleteCalls, idVars>>

SelectStackFail(k) ==
  /\ status[k] = "Running" /\ step[k] = "selectStack"
  /\ processCatch(k, "selectStack")
  /\ UNCHANGED <<handlerVars, inputVars, node, deps, results, processCalls,
                 selectCalls, runCalls, deleteCalls, idVars>>

RunFnFail(k) ==
  /\ status[k] = "Running" /\ step[k] = "runFn"
  /\ runFnActs(node[k].runFn, node[k].pulumiParams)
  /\ processCatch(k, "runFn")
  /\ UNCHANGED <<handlerVars, inputVars, node, deps, results, processCalls,
                 selectCalls, runCalls, deleteCalls, idVars>>

\* runFn resolves: log.setSuccess(...); return {}
RunFnOk(k) ==
  /\ status[k] = "Running" /\ step[k] = "runFn"
  /\ log' = [log EXCEPT ![getName(node[k])] = Append(@, "success")]
  /\ status' = [status EXCEPT ![k] = "Succeeded"]
  /\ step' = [step EXCEPT ![k] = "-"]
  /\ UNCHANGED <<handlerVars, inputVars, node, deps, results, failedAt,
                 processCalls, selectCalls, runCalls, deleteCalls, idVars>>

\* a handler that would return the result of garden.processTasks
handlerResultOfEngine(res) == res

\* return { result: {} }
handlerResult(res) == {}

Return ==
  /\ pc = "return"
  /\ returned' = [done |-> TRUE, result |-> handlerResult(results)]
  /\ pc' = "returned"
  /\ UNCHANGED <<error, graph, graphCalls, beforeCalls, mapper, tasks, submitted>>
  /\ UNCHANGED <<inputVars, engineVars, processVars, idVars>>

Next ==
  \/ GetConfigGraphOk
  \/ GetConfigGraphFail
  \/ BeforeFnOk
  \/ BeforeFnFail
  \/ ResolveProvidersOk
  \/ ResolveProvidersFail
  \/ \E s \in Services : MapperResolve(s)
  \/ \E s \in Services : MapperReject(s)
  \/ ProcessTasks
  \/ \E k \in Services : Resolve(k)
  \/ \E k \in Services : Abort(k)
  \/ \E k \in Services : Start(k)
  \/ \E k \in Services : SelectStackOk(k)
  \/ \E k \in Services : SelectStackFail(k)
  \/ \E k \in Services : RunFnOk(k)
  \/ \E k \in Services : RunFnFail(k)
  \/ ProcessTasksDone
  \/ Return

Spec == Init /\ [][Next]_vars


\* ------------------------------------------------------------------------
\* Notions the properties are stated in, read off the project itself
\* ------------------------------------------------------------------------

PulumiServices == { s \in Services : ModuleType(s) = "pulumi" }

\* the direct dependencies of s that are pulumi services
PulumiDeps(s) == { d \in project[s] : ModuleType(d) = "pulumi" }

\* the services the invocation targets
Targets == IF args = {} THEN PulumiServices ELSE args \cap PulumiServices

RECURSIVE PulumiReach(_)
\* the services reachable from the set `seen` through pulumi services only
PulumiReach(seen) ==
  LET more == seen \cup UNION { PulumiDeps(s) : s \in seen }
  IN IF more = seen THEN seen ELSE PulumiReach(more)

Closure == PulumiReach(Targets)

\* the services s depends on through pulumi services only, s excluded
TransDeps(s) == PulumiReach(PulumiDeps(s))

Related(a, b) == a = b \/ a \in TransDeps(b) \/ b \in TransDeps(a)

\* the engine has a task of service s in one of the states of `states`
TaskIn(s, states) ==
  \E k \in Services : status[k] \in states /\ node[k].service = s

Started(s) == processCalls[s] > 0

EngineEntered == pc \in {"engine", "return", "returned"}

Expanded == EngineEntered /\ \A k \in Services : status[k] # "Created"

NothingFailed == \A k \in Services : status[k] \notin {"Failed", "Aborted"}

\* ------------------------------------------------------------------------
\* Properties
\* ------------------------------------------------------------------------

\* C1: whenever the task of a pulumi service S has started process(), the
\* task of every direct pulumi dependency D of S is in a terminal state
\* (Succeeded or Failed); as a terminal state is never left and the state
\* right after S starts differs from the one before in S only, D was
\* terminal before S started.
C1_DependencyTerminalBeforeStart ==
  \A s \in Services :
    Started(s) => \A d \in PulumiDeps(s) : TaskIn(d, Terminal)

\* a task is running although a direct dependency of it, run before, failed
C1_Witness ==
  \E s \in Services : \E d \in PulumiDeps(s) :
    /\ status[s] = "Running"
    /\ status[d] = "Failed"
    /\ processCalls[d] = 1

\* C2: the process() of a service is never executed more than once in an
\* invocation, whatever the number of paths its task was created through;
\* once every task has had its dependencies resolved the engine holds exactly
\* one task for a service that is a dependency of two targets, and when the
\* invocation ends that task has been executed exactly once unless the
\* engine aborted it.
SharedDeps ==
  { d \in Services : \E s1, s2 \in Targets :
      s1 # s2 /\ d \in TransDeps(s1) /\ d \in TransDeps(s2) }

C2_SharedDependencyOnce ==
  /\ \A s \in Services : processCalls[s] <= 1
  /\ Expanded =>
       \A d \in SharedDeps :
         Cardinality({ k \in Keys : node[k].service = d }) = 1
  /\ pc = "returned" =>
       \A d \in SharedDeps :
         \/ processCalls[d] = 1 /\ TaskIn(d, Terminal)
         \/ policy = "skip" /\ TaskIn(d, {"Aborted"})

C2_Witness ==
  /\ pc = "returned"
  /\ \E d \in SharedDeps : processCalls[d] = 1 /\ d \notin Targets
  /\ \A s \in Targets : status[s] = "Succeeded"
  /\ Cardinality(Targets) = 2

\* C3: the services the engine holds a task for are always among the
\* closure of the targets under the direct pulumi-to-pulumi dependency
\* relation, are exactly that closure once every task has had its
\* dependencies resolved, and only services of the closure are executed:
\* all of them when the invocation ends without a failure.
C3_TaskSetIsClosure ==
  /\ { node[k].service : k \in Keys } \subseteq Closure
  /\ Expanded => { node[k].service : k \in Keys } = Closure
  /\ { s \in Services : Started(s) } \subseteq Closure
  /\ (pc = "returned" /\ NothingFailed) => { s \in Services : Started(s) } = Closure

\* the closure is larger than the targets and leaves out a pulumi service
\* that is reachable through a service of another type only
C3_Witness ==
  /\ pc = "returned" /\ NothingFailed
  /\ Closure # Targets
  /\ \E z \in Services \ PulumiServices : \E t \in Targets :
       z \in project[t] /\ project[z] # {} /\ ~(project[z] \subseteq Closure)

\* C4: with no target names the root tasks are one per pulumi service and
\* none for another service, and every pulumi service is executed at most
\* once, exactly once when the invocation ends unless the engine aborted it.
C4_NoTargetsCoversAll ==
  (args = {} /\ EngineEntered) =>
    /\ { t.service : t \in submitted } = PulumiServices
    /\ Cardinality(submitted) = Cardinality(PulumiServices)
    /\ \A s \in Services : processCalls[s] <= 1
    /\ \A s \in Services \ PulumiServices : ~Started(s) /\ ~TaskIn(s, Finished \cup {"Created", "Ready", "Running"})
    /\ pc = "returned" =>
         \A s \in PulumiServices :
           \/ processCalls[s] = 1 /\ TaskIn(s, Terminal)
           \/ policy = "skip" /\ TaskIn(s, {"Aborted"})

C4_Witness ==
  /\ args = {}
  /\ pc = "returned"
  /\ \A s \in PulumiServices : processCalls[s] = 1 /\ status[s] = "Succeeded"
  /\ \E s \in PulumiServices : project[s] # {}

\* C5: a named service that is not a pulumi service gets no map callback
\* and no task, the handler throws only when one of its awaited calls fails
\* (none of which is made for that service), and the tasks built for the
\* other named services are those built when the name is left out.
C5_OtherTypeDropped ==
  \A z \in args \ PulumiServices :
    /\ mapper[z] = "idle"
    /\ \A t \in tasks \cup submitted : t.service # z
    /\ ~TaskIn(z, Finished \cup {"Created", "Ready", "Running"})
    /\ pc = "threw" =>
         error \in {"getConfigGraph", "beforeFn", "resolveProviders", "getPluginContext"}
    /\ EngineEntered =>
         \A s \in args \ {z} :
           { t \in submitted : t.service = s } =
             { rootTask(project, limit, commandName, x) :
                 x \in { y \in targetServices(project, args \ {z}) : y = s } }

C5_Witness ==
  /\ "Z" \in args
  /\ "A" \in args
  /\ "Z" \in project["A"]
  /\ pc = "returned"
  /\ status["A"] = "Succeeded"

\* C6: a task whose run function failed is Failed; no task is Failed without
\* having failed itself; a task is aborted only if a task it depends on
\* failed; and when the engine is done every task unrelated to all failed
\* tasks has run and is Succeeded.
C6_FailureIsolated ==
  /\ \A k \in Services : failedAt[k] = "runFn" => status[k] = "Failed"
  /\ \A k \in Services : status[k] = "Failed" => failedAt[k] # "none"
  /\ \A k \in Services :
       status[k] = "Aborted" => \E f \in TransDeps(k) : status[f] = "Failed"
  /\ pc \in {"return", "returned"} =>
       \A k \in Keys :
         (\A f \in Keys : status[f] = "Failed" => ~Related(k, f))
           => (status[k] = "Succeeded" /\ Started(k))

\* the run function of one task failed and an unrelated sibling succeeded
\* after it
C6_Witness ==
  \E f, k \in Keys :
    /\ failedAt[f] = "runFn"
    /\ ~Related(k, f)
    /\ status[k] = "Succeeded"
    /\ log[k] = <<"active", "success">>
    /\ log[f] = <<"active", "error">>
    /\ pc = "returned"


\* C7 as stated: a rejected map callback does not abort the command.
C7_Original ==
  (\E s \in Services : mapper[s] = "rejected") => pc # "threw"

\* C7, amended: when context resolution fails for a target service the
\* Bluebird.map call rejects and the handler throws: processTasks is not
\* called, no root task reaches the engine, however many were constructed,
\* nothing is executed and nothing is returned.
C7_ContextFailureAbortsCommand ==
  (\E s \in Services : mapper[s] = "rejected") =>
    /\ pc = "threw"
    /\ error = "getPluginContext"
    /\ submitted = {}
    /\ \A k \in Services : status[k] = "None" /\ ~Started(k)
    /\ ~returned.done

\* one callback rejected, the task of another target was constructed
C7_Witness ==
  \E s1, s2 \in Targets :
    /\ mapper[s1] = "rejected"
    /\ mapper[s2] = "built"
    /\ \E t \in tasks : t.service = s2
    /\ pc = "threw"

\* C8: beforeFn runs at most once and only for a command that has one, when
\* it runs the graph snapshot has been obtained and no map callback has
\* started nor any task been constructed, tasks are constructed only after
\* it has run, and a failure of getConfigGraph or of beforeFn leaves the
\* handler thrown with no task constructed, submitted or filed.
C8_PreFlight ==
  /\ [](/\ beforeCalls <= 1
        /\ beforeCalls = 1 => (hasBeforeFn(commandName) /\ graphCalls = 1 /\ graph = project)
        /\ (hasBeforeFn(commandName) /\ (tasks # {} \/ \E s \in Services : mapper[s] # "idle"))
             => beforeCalls = 1
        /\ error \in {"getConfigGraph", "beforeFn"} =>
             /\ pc = "threw"
             /\ tasks = {} /\ submitted = {}
             /\ \A s \in Services : mapper[s] = "idle" /\ status[s] = "None"
             /\ ~returned.done)
  /\ [][beforeCalls' # beforeCalls =>
          /\ graphCalls = 1
          /\ tasks = {}
          /\ \A s \in Services : mapper[s] = "idle"]_vars

C8_Witness ==
  /\ error = "beforeFn"
  /\ beforeCalls = 1
  /\ graphCalls = 1
  /\ pc = "threw"
  /\ args # {}

\* C9 as stated: the handler returns the outcome map of the engine.
C9_Original ==
  pc = "returned" => returned.result = results

\* ------------------------------------------------------------------------
\* Task identity: two tasks of the program handed to one engine
\* ------------------------------------------------------------------------

\* the tasks the handlers of all commands construct for a project, and the
\* tasks resolveDependencies derives from them
RootTasksOf(g, lim) ==
  { rootTask(g, lim, c, s) : c \in CommandNames, s \in targetServices(g, {}) }

TasksOf(g, lim) ==
  RootTasksOf(g, lim) \cup UNION { resolveDependencies(t) : t \in RootTasksOf(g, lim) }

InitId ==
  /\ project \in Graphs
  /\ limit = 1
  /\ policy = "skip"
  /\ commandName = "preview"
  /\ args = {}
  /\ InitRun
  /\ idA \in TasksOf(project, limit)
  /\ idB \in TasksOf(project, limit)
  /\ merged = FALSE
  /\ calls = 0 /\ firstResult = {} /\ lastResult = {}

\* the engine files idA, then idB
Identify ==
  /\ pc = "getConfigGraph"
  /\ LET first == AddTasks(node, status, {idA})
         both == AddTasks(first.node, first.status, {idB})
     IN /\ node' = both.node
        /\ status' = both.status
        /\ merged' = (Cardinality({ k \in Services : both.status[k] # "None" }) = 1)
  /\ pc' = "identified"
  /\ UNCHANGED <<inputVars, error, graph, graphCalls, beforeCalls, mapper, tasks,
                 submitted, returned, deps, results, processVars, idA, idB,
                 calls, firstResult, lastResult>>

NextId == Identify

SpecId == InitId /\ [][NextId]_vars

\* C10 as stated: two tasks are merged exactly when they have the same
\* target service and the same command name.
C10_Original ==
  pc = "identified" =>
    (merged <=> (idA.service = idB.service /\ idA.commandName = idB.commandName))

\* C10, amended: the identity of a task is the name of its target service
\* alone: two tasks are merged exactly when they have the same target
\* service, whatever their command names and parameters.
C10_IdentityIsServiceName ==
  pc = "identified" => (merged <=> idA.service = idB.service)

\* two tasks of one service under different commands are merged, and so are
\* a root task and a derived task of one service
C10_Witness ==
  /\ pc = "identified"
  /\ merged
  /\ idA.service = idB.service
  /\ idA.commandName # idB.commandName
  /\ idA.pulumiParams.service # idB.pulumiParams.service


\* C11: every task the engine holds and every root task constructed carries
\* the pluginTaskConcurrencyLimit of the provider configuration, and the
\* number of tasks in process() at the same time never exceeds it.
C11_ConcurrencyCeiling ==
  /\ \A t \in tasks \cup submitted : t.concurrencyLimit = limit
  /\ \A k \in Keys : node[k].concurrencyLimit = limit
  /\ \A k \in Keys : \A t \in resolveDependencies(node[k]) : t.concurrencyLimit = limit
  /\ RunningCount <= limit

\* the ceiling is reached and holds back a task whose dependencies are all
\* terminal, while a task derived by resolveDependencies is held
C11_Witness ==
  /\ RunningCount = limit
  /\ \E k \in Keys :
       /\ status[k] = "Ready"
       /\ \A d \in deps[k] : status[d] = "Succeeded"
  /\ \E k \in Keys : node[k] \notin submitted


\* C12 as stated: the service, the module and the plugin context in the
\* parameters of every task the engine holds are those of the task's own
\* target service.
C12_Original ==
  \A k \in Keys :
    /\ node[k].pulumiParams.service = node[k].service
    /\ node[k].pulumiParams.module = ModuleOf(node[k].service)
    /\ node[k].pulumiParams.ctx = ctxForModule(limit, node[k].service)

\* C13: resolveDependencies on a task the engine holds returns one task per
\* direct pulumi dependency of the task's service and nothing else, each
\* with the command name, run function and description of the task; the
\* dependencies the engine recorded for a resolved task are those services.
C13_OneHopSameType ==
  \A k \in Keys :
    LET found == resolveDependencies(node[k])
    IN /\ { t.service : t \in found } = PulumiDeps(node[k].service)
       /\ Cardinality(found) = Cardinality(PulumiDeps(node[k].service))
       /\ \A t \in found :
            /\ t.commandName = node[k].commandName
            /\ t.runFn = node[k].runFn
            /\ t.commandDescription = node[k].commandDescription
            /\ ModuleType(t.service) = "pulumi"
       /\ status[k] # "Created" => deps[k] = PulumiDeps(node[k].service)

\* a resolved task with a direct dependency of another type, a pulumi
\* service two hops away behind it, and one direct pulumi dependency
C13_Witness ==
  \E k \in Keys :
    /\ status[k] = "Ready"
    /\ deps[k] = {"B"}
    /\ "Z" \in project[k]
    /\ "C" \in project["Z"]
    /\ status["C"] = "None"

\* C14: a task whose stack selection failed never had its run function
\* called, emitted the start line and then the failure line and no success
\* line, and is Failed; a task whose run function failed emitted the same
\* lines and is Failed as well.
C14_SelectStackFailure ==
  \A k \in Services :
    /\ failedAt[k] = "selectStack" =>
         /\ runCalls[k] = 0
         /\ deleteCalls[k] = 0
         /\ selectCalls[k] = 1
         /\ log[k] = <<"active", "error">>
         /\ status[k] = "Failed"
    /\ failedAt[k] = "runFn" =>
         /\ log[k] = <<"active", "error">>
         /\ status[k] = "Failed"

\* stack selection failed for one task and the engine has finished
C14_Witness ==
  /\ pc = "returned"
  /\ \E k \in Keys : failedAt[k] = "selectStack" /\ <<k, "failure">> \in results
  /\ \E k \in Keys : failedAt[k] = "runFn"


\* the moves of the task of a key: filed (Created), dependencies resolved
\* (Ready; ResolvingDependencies is the inside of that step), process()
\* entered (Running), process() left (Succeeded or Failed); the engine may
\* drop a Ready task whose dependency failed without starting it
Forward ==
  { <<"None", "Created">>, <<"Created", "Ready">>, <<"Ready", "Running">>,
    <<"Running", "Succeeded">>, <<"Running", "Failed">>, <<"Ready", "Aborted">> }

\* C15: the task of every key only moves forward, one state at a time, and
\* never leaves Succeeded or Failed; process() runs at most once per key; the
\* status lines of a task are the start line, followed by the success line
\* exactly when the task is Succeeded and by the failure line exactly when
\* it is Failed, never by both.
C15_Lifecycle ==
  /\ [](\A k \in Services :
          /\ processCalls[k] <= 1
          /\ log[k] \in { <<>>, <<"active">>, <<"active", "success">>, <<"active", "error">> }
          /\ status[k] = "Running" <=> log[k] = <<"active">>
          /\ status[k] = "Succeeded" <=> log[k] = <<"active", "success">>
          /\ status[k] = "Failed" <=> log[k] = <<"active", "error">>
          /\ processCalls[k] = 1 <=> status[k] \in {"Running", "Succeeded", "Failed"})
  /\ [][\A k \in Services :
          /\ status'[k] # status[k] => <<status[k], status'[k]>> \in Forward
          /\ node[k] # NoTask => node'[k] = node[k]]_vars

\* the engine is done with one task Succeeded and another Failed
C15_Witness ==
  /\ pc = "returned"
  /\ \E k \in Keys : status[k] = "Succeeded" /\ log[k] = <<"active", "success">>
  /\ \E k \in Keys : status[k] = "Failed" /\ log[k] = <<"active", "error">>
  /\ policy = "attempt"
  /\ \E k \in Keys : status[k] = "Succeeded" /\ \E d \in deps[k] : status[d] = "Failed"


\* ------------------------------------------------------------------------
\* resolveDependencies called repeatedly on one task
\* ------------------------------------------------------------------------

InitPure ==
  /\ project \in Graphs
  /\ limit \in 1..MaxLimit
  /\ policy = "skip"
  /\ commandName = "preview"
  /\ args = {}
  /\ InitRun
  /\ idA \in TasksOf(project, limit)
  /\ idB = idA
  /\ merged = FALSE
  /\ calls = 0 /\ firstResult = {} /\ lastResult = {}

\* one more call of idA.resolveDependencies()
CallResolve ==
  /\ calls < MaxCalls
  /\ calls' = calls + 1
  /\ lastResult' = resolveDependencies(idA)
  /\ firstResult' = IF calls = 0 THEN resolveDependencies(idA) ELSE firstResult
  /\ idA' = resolveDependenciesEffect(idA)
  /\ UNCHANGED <<inputVars, handlerVars, engineVars, processVars, idB, merged>>

NextPure == CallResolve

SpecPure == InitPure /\ [][NextPure]_vars

CycleGraphs ==
  { ("A" :> {"B"}) @@ ("B" :> {"A", "C"}) @@ ("C" :> {}) @@ ("Z" :> {}),
    ("A" :> {"A"}) @@ ("B" :> {"C"}) @@ ("C" :> {}) @@ ("Z" :> {"A"}),
    ("A" :> {"B"}) @@ ("B" :> {"C"}) @@ ("C" :> {"A"}) @@ ("Z" :> {"A"}) }

InitCycle ==
  /\ project \in CycleGraphs
  /\ limit \in 1..MaxLimit
  /\ policy \in {"skip", "attempt"}
  /\ commandName \in {"preview", "refresh"}
  /\ args \in { a \in SUBSET Services : Cardinality(a) <= MaxTargets }
  /\ InitRun
  /\ idA = NoTask /\ idB = NoTask /\ merged = FALSE
  /\ calls = 0 /\ firstResult = {} /\ lastResult = {}

\* the engine goes on resolving the dependencies of the tasks it holds
SpecCycle == InitCycle /\ [][Next]_vars /\ WF_vars(\E k \in Services : Resolve(k))

\* C17: with a cycle among the pulumi services every resolveDependencies
\* call returns the one-hop dependencies, the dependencies of a key are
\* resolved once and never again, the engine holds tasks of the closure
\* only, and once the tasks are in the engine the expansion comes to an end
\* with exactly the closure filed.
C17_ExpansionTerminates ==
  /\ [](/\ \A k \in Keys : status[k] # "Created" => deps[k] = PulumiDeps(k)
        /\ { node[k].service : k \in Keys } \subseteq Closure
        /\ Expanded => { node[k].service : k \in Keys } = Closure)
  /\ [][\A k \in Services :
          status[k] \notin {"None", "Created"} =>
            (status'[k] # "Created" /\ deps'[k] = deps[k] /\ node'[k] = node[k])]_vars
  /\ (pc = "engine") ~> Expanded

\* the expansion has ended with every task of a cycle filed
C17_Witness ==
  /\ Expanded
  /\ \E k \in Keys : k \in TransDeps(k) /\ k \notin PulumiDeps(k)
  /\ Cardinality(Keys) = 3


\* C18: getConfigGraph is called once in an invocation, the snapshot it
\* returned is the graph of every root task, of every task the engine holds
\* and of every task resolveDependencies returns, and once obtained neither
\* the snapshot nor the graph of the project changes until the end.
C18_SnapshotSharedReadOnly ==
  /\ [](/\ graphCalls <= 1
        /\ (pc # "getConfigGraph" /\ error # "getConfigGraph") =>
             (graphCalls = 1 /\ graph = project)
        /\ \A t \in tasks \cup submitted : t.graph = graph
        /\ \A k \in Keys :
             /\ node[k].graph = graph
             /\ \A t \in resolveDependencies(node[k]) : t.graph = graph)
  /\ [][/\ project' = project
        /\ graph # NoGraph => graph' = graph
        /\ \A k \in Keys : node'[k].graph = node[k].graph]_vars

\* the invocation has ended with a derived task executed
C18_Witness ==
  /\ pc = "returned"
  /\ graphCalls = 1
  /\ \E k \in Keys : node[k] \notin submitted /\ status[k] = "Succeeded" /\ node[k].graph = project
  /\ \E k \in Keys : deps[k] # {} /\ status[k] = "Succeeded"

\* C19 as stated: a task that resolveDependencies returns, or that the
\* handler submits, for a key the engine already holds a task for is the same
\* as the task held, so that it does not matter which of them is kept.
C19_Original ==
  /\ \A t \in submitted : node[Key(t)] = t
  /\ \A k \in Keys :
       status[k] # "Created" =>
         \A t \in resolveDependencies(node[k]) : node[Key(t)] = t

\* C20: under the destroy command a task whose module has allowDestroy false
\* never calls deletePulumiService, calls selectStack once it has started,
\* cannot fail in its run function and is Succeeded with the success line
\* once its run function was called and it has left process(); a module
\* whose delete operation is called has allowDestroy true, under the destroy
\* command, and then it is called once per run function call.
C20_DestroyGuard ==
  \A k \in Services :
    /\ deleteCalls[k] > 0 => (commandName = "destroy" /\ AllowDestroy(k))
    /\ (commandName = "destroy" /\ AllowDestroy(k)) => deleteCalls[k] = runCalls[k]
    /\ (commandName = "destroy" /\ ~AllowDestroy(k)) =>
         /\ deleteCalls[k] = 0
         /\ Started(k) => selectCalls[k] = 1
         /\ failedAt[k] # "runFn"
         /\ (runCalls[k] = 1 /\ status[k] # "Running") =>
              (status[k] = "Succeeded" /\ log[k] = <<"active", "success">>)

\* B (allowDestroy false) succeeded without a delete, after the delete of
\* its dependency C (allowDestroy true) was called
C20_Witness ==
  /\ commandName = "destroy"
  /\ status["B"] = "Succeeded"
  /\ runCalls["B"] = 1 /\ selectCalls["B"] = 1 /\ deleteCalls["B"] = 0
  /\ "C" \in deps["B"]
  /\ deleteCalls["C"] = 1

====
